---- MODULE Spec2Model ----
(***************************************************************************)
(* Model of the plan monitor: the checklist extractor, the hierarchy       *)
(* builder, the branch filter and the status aggregator of                 *)
(* src/src/planParser.ts, the mtime cache of src/src/planCache.ts, the     *)
(* view provider PlanMonitorProvider with the file watcher of              *)
(* src/src/extension.ts, and the webview script src/webview/main.js.       *)
(***************************************************************************)
EXTENDS Integers, Sequences, FiniteSets, Bags, TLC

\* ------------------------------------------------------------------------
\* Bounds of the model
\* ------------------------------------------------------------------------
\* longest flat (item, level) sequence handed to buildHierarchy directly
MaxItems == 3
\* largest level of an item of such a sequence
MaxLevel == 3
\* number of physical lines of a parsed document
MaxLines == 3
\* deepest heading of a parsed document (markdown allows 1..6)
MaxHeading == 3
\* deepest list nesting of a parsed document
MaxDepth == 2
\* number of PlanCache.get / PlanCache.set calls awaiting fs.stat at once
MaxCalls == 1
\* number of times a file is written after the start
MaxWrites == 1

\* handlers (resolveWebviewView, selectFile, refreshView) started in a run
MaxEvents == 2
\* patterns in the exclusion list of the settings screen
MaxExclusions == 2

\* ------------------------------------------------------------------------
\* types.ts
\* ------------------------------------------------------------------------
Pending == "pending"
Done == "done"
InProgress == "in-progress"
Blocked == "blocked"
TaskState == {Pending, Done, InProgress, Blocked}

Heading == "heading"
Task == "task"
ItemType == {Heading, Task}

Partial == "partial"
AggregatedStatus == {Done, Partial, Pending}

\* an optional property that has not been set (state, aggregatedStatus,
\* hasTaskDescendants); a set flag is "true" or "false"
Undefined == "undefined"

FilePath == "PLAN.md"

\* the object literal pushed to flatItems: state, aggregatedStatus and
\* hasTaskDescendants are absent unless given
HierarchyItem(type, text, state, line, level) ==
  [id |-> <<FilePath, line>>, type |-> type, text |-> text, state |-> state,
   aggregatedStatus |-> Undefined, line |-> line, level |-> level,
   children |-> <<>>, hasTaskDescendants |-> Undefined]

\* ------------------------------------------------------------------------
\* buildHierarchy: a frame's children array is a reference into the forest,
\* modelled as the path (child indices from the root list) of its owner
\* ------------------------------------------------------------------------
RECURSIVE ChildrenAt(_, _)
ChildrenAt(forest, path) ==
  IF path = <<>> THEN forest
  ELSE ChildrenAt(forest[Head(path)].children, Tail(path))

RECURSIVE PushAtFront(_, _, _)
PushAtFront(forest, path, item) ==
  IF path = <<>> THEN <<item>> \o forest
  ELSE [forest EXCEPT ![Head(path)].children = PushAtFront(@, Tail(path), item)]

\* parent.children.push(item), parent.children being the array at the path
RECURSIVE PushAt(_, _, _)
PushAt(forest, path, item) ==
  IF path = <<>> THEN Append(forest, item)
  ELSE [forest EXCEPT ![Head(path)].children = PushAt(@, Tail(path), item)]

RECURSIVE PopFramesLoose(_, _)
PopFramesLoose(stack, level) ==
  IF Len(stack) > 1 /\ stack[Len(stack)].level > level
  THEN PopFramesLoose(SubSeq(stack, 1, Len(stack) - 1), level)
  ELSE stack

\* while (stack.length > 1 && stack[stack.length - 1].level >= level) stack.pop()
RECURSIVE PopFrames(_, _)
PopFrames(stack, level) ==
  IF Len(stack) > 1 /\ stack[Len(stack)].level >= level
  THEN PopFrames(SubSeq(stack, 1, Len(stack) - 1), level)
  ELSE stack

BuildIterationPopOnce(st, fi) ==
  LET popped == IF Len(st.stack) > 1 /\ st.stack[Len(st.stack)].level >= fi.level
                THEN SubSeq(st.stack, 1, Len(st.stack) - 1) ELSE st.stack
      parent == popped[Len(popped)]
      newRoot == PushAt(st.root, parent.children, fi.item)
      idx == Len(ChildrenAt(st.root, parent.children)) + 1
  IN [root |-> newRoot,
      stack |-> Append(popped, [level |-> fi.level,
                                children |-> Append(parent.children, idx)])]

\* one iteration of the forEach of buildHierarchy
BuildIteration(st, fi) ==
  LET popped == PopFrames(st.stack, fi.level)
      parent == popped[Len(popped)]
      newRoot == PushAt(st.root, parent.children, fi.item)
      idx == Len(ChildrenAt(st.root, parent.children)) + 1
  IN [root |-> newRoot,
      stack |-> Append(popped, [level |-> fi.level,
                                children |-> Append(parent.children, idx)])]

BuildStart == [root |-> <<>>, stack |-> <<[level |-> 0, children |-> <<>>]>>]

RECURSIVE BuildFold(_, _)
BuildFold(st, flat) ==
  IF flat = <<>> THEN st
  ELSE BuildFold(BuildIteration(st, Head(flat)), Tail(flat))

buildHierarchy(flat) == BuildFold(BuildStart, flat).root

\* ------------------------------------------------------------------------
\* markTaskDescendants: the marked items and the returned hasAnyTasks
\* ------------------------------------------------------------------------
FlagAlways(b) == "true"

\* the boolean stored in hasTaskDescendants
Flag(b) == IF b THEN "true" ELSE "false"

RECURSIVE markTaskDescendants(_)
markTaskDescendants(items) ==
  IF items = <<>> THEN [items |-> <<>>, hasAnyTasks |-> FALSE]
  ELSE
    LET item == Head(items)
        sub == markTaskDescendants(item.children)
        rest == markTaskDescendants(Tail(items))
        marked ==
          IF item.type = Task
          THEN [item EXCEPT !.hasTaskDescendants = "true",
                            !.children = IF Len(@) > 0 THEN sub.items ELSE @]
          ELSE IF Len(item.children) > 0
          THEN [item EXCEPT !.hasTaskDescendants = Flag(sub.hasAnyTasks),
                            !.children = sub.items]
          ELSE [item EXCEPT !.hasTaskDescendants = "false"]
        has == \/ item.type = Task
               \/ (Len(item.children) > 0 /\ sub.hasAnyTasks)
    IN [items |-> <<marked>> \o rest.items,
        hasAnyTasks |-> has \/ rest.hasAnyTasks]

\* ------------------------------------------------------------------------
\* filterTaskBranches
\* ------------------------------------------------------------------------
KeepAll(item) == TRUE

\* the filter callback: item => item.hasTaskDescendants
KeepItem(item) == item.hasTaskDescendants = "true"

RECURSIVE filterTaskBranches(_)
filterTaskBranches(items) ==
  LET kept == SelectSeq(items, KeepItem)
  IN [j \in 1..Len(kept) |->
        [kept[j] EXCEPT !.children = filterTaskBranches(@)]]

\* ------------------------------------------------------------------------
\* collectDescendantTasks / calculateAggregatedStatus
\* ------------------------------------------------------------------------
RECURSIVE CollectFrom(_)
CollectFrom(children) ==
  IF children = <<>> THEN <<>>
  ELSE LET child == Head(children)
       IN (IF child.type = Task THEN <<child>> ELSE <<>>)
          \o (IF Len(child.children) > 0 THEN CollectFrom(child.children) ELSE <<>>)
          \o CollectFrom(Tail(children))

collectDescendantTasks(item) == CollectFrom(item.children)

IsDone(t) == t.state = Done

StatusOfPartialFirst(descendantTasks) ==
  LET doneCount == Len(SelectSeq(descendantTasks, IsDone))
      totalCount == Len(descendantTasks)
  IN IF totalCount = 0 THEN Pending
     ELSE IF doneCount > 0 THEN Partial
     ELSE IF doneCount = totalCount THEN Done
     ELSE Pending

\* the if/else chain of calculateAggregatedStatus
StatusOf(descendantTasks) ==
  LET doneCount == Len(SelectSeq(descendantTasks, IsDone))
      totalCount == Len(descendantTasks)
  IN IF totalCount = 0 THEN Pending
     ELSE IF doneCount = totalCount THEN Done
     ELSE IF doneCount > 0 THEN Partial
     ELSE Pending

RECURSIVE calculateAggregatedStatusAll(_)
calculateAggregatedStatusAll(items) ==
  [j \in 1..Len(items) |->
     [items[j] EXCEPT
        !.children = calculateAggregatedStatusAll(@),
        !.aggregatedStatus = StatusOf(collectDescendantTasks(items[j]))]]

RECURSIVE calculateAggregatedStatus(_)
calculateAggregatedStatus(items) ==
  [j \in 1..Len(items) |->
     LET item == items[j]
         withChildren ==
           IF Len(item.children) > 0
           THEN [item EXCEPT !.children = calculateAggregatedStatus(@)]
           ELSE item
     IN IF Len(withChildren.children) > 0
        THEN [withChildren EXCEPT
                !.aggregatedStatus = StatusOf(collectDescendantTasks(withChildren))]
        ELSE withChildren]

\* ------------------------------------------------------------------------
\* countTasks and the statistics of parsePlan
\* ------------------------------------------------------------------------
OneCounted == [pending |-> 1, done |-> 0, inProgress |-> 0, blocked |-> 0]

\* const counts = { pending: 0, done: 0, inProgress: 0, blocked: 0 }
ZeroCounts == [pending |-> 0, done |-> 0, inProgress |-> 0, blocked |-> 0]

Bump(counts, item) ==
  IF item.type = Task /\ item.state # Undefined
  THEN IF item.state = Pending THEN [counts EXCEPT !.pending = @ + 1]
       ELSE IF item.state = Done THEN [counts EXCEPT !.done = @ + 1]
       ELSE IF item.state = InProgress THEN [counts EXCEPT !.inProgress = @ + 1]
       ELSE IF item.state = Blocked THEN [counts EXCEPT !.blocked = @ + 1]
       ELSE counts
  ELSE counts

RECURSIVE countTasksShallow(_, _)
countTasksShallow(counts, items) ==
  IF items = <<>> THEN counts
  ELSE countTasksShallow(Bump(counts, Head(items)), Tail(items))

RECURSIVE countTasks(_, _)
countTasks(counts, items) ==
  IF items = <<>> THEN counts
  ELSE LET item == Head(items)
           own == Bump(counts, item)
           below == IF Len(item.children) > 0 THEN countTasks(own, item.children)
                    ELSE own
       IN countTasks(below, Tail(items))

IsAnyEntry(fi) == TRUE

IsTaskEntry(fi) == fi.item.type = Task

\* flatItems.filter(item => item.item.type === ItemType.Task).length
totalTaskCount(flat) == Len(SelectSeq(flat, IsTaskEntry))

\* ------------------------------------------------------------------------
\* The tokenizer (markdown-it with markdown-it-task-lists), an external
\* collaborator: md.parse(content, {}).  A document is a sequence of
\* physical lines; a text is a sequence of lexemes.
\* ------------------------------------------------------------------------
Token(type, tag, map, attrs, content, children) ==
  [type |-> type, tag |-> tag, map |-> map, attrs |-> attrs,
   content |-> content, children |-> children]

HeadingLine(level, text) ==
  [kind |-> "h", level |-> level, depth |-> 0, bullet |-> "#",
   marker |-> "", text |-> text]

ItemLine(depth, bullet, marker, text) ==
  [kind |-> "li", level |-> 0, depth |-> depth, bullet |-> bullet,
   marker |-> marker, text |-> text]

\* a list item whose first block is an ATX heading: "- ## [-] A"
ItemHeadingLine(depth, bullet, level, marker, text) ==
  [kind |-> "li", level |-> level, depth |-> depth, bullet |-> bullet,
   marker |-> marker, text |-> text]

ListOpen(bullet) == IF bullet = "1." THEN "ordered_list_open" ELSE "bullet_list_open"
ListClose(bullet) == IF bullet = "1." THEN "ordered_list_close" ELSE "bullet_list_close"
ListTag(bullet) == IF bullet = "1." THEN <<"ol">> ELSE <<"ul">>

\* raw text of a list item: marker, one space, text
RawContent(line) ==
  (IF line.marker = "" THEN <<>> ELSE <<line.marker>>)
  \o (IF line.marker # "" /\ line.text # <<>> THEN <<" ">> ELSE <<>>)
  \o line.text

\* the plugin rewrites an item whose first block is a paragraph and whose raw
\* text starts with "[ ] ", "[x] " or "[X] "
IsTodo(line) ==
  line.level = 0 /\ line.marker \in {"[ ]", "[x]", "[X]"} /\ line.text # <<>>

CheckboxHtml(line) ==
  <<"<input", "task-list-item-checkbox">>
  \o (IF line.marker \in {"[x]", "[X]"} THEN <<"checked=\"\"">> ELSE <<>>)
  \o <<"disabled", "type=checkbox>">>

InlineChild(type, content) == [type |-> type, content |-> content]

\* list_item_open and the first block of one item: paragraph_open, inline,
\* paragraph_close, or heading_open, inline, heading_close
ItemTokens(line, n) ==
  LET todo == IsTodo(line)
      block == IF line.level = 0 THEN <<"p">> ELSE <<"h", line.level>>
      blockOpen == IF line.level = 0 THEN "paragraph_open" ELSE "heading_open"
      blockClose == IF line.level = 0 THEN "paragraph_close" ELSE "heading_close"
      attrs == IF todo THEN <<<<"class", {"task-list-item"}>>>> ELSE <<>>
      kids == IF todo
              THEN << InlineChild("html_inline", <<"<label>">>),
                      InlineChild("html_inline", CheckboxHtml(line)),
                      InlineChild("text", <<" ">> \o line.text),
                      InlineChild("html_inline", <<"</label>">>) >>
              ELSE << InlineChild("text", RawContent(line)) >>
  IN << Token("list_item_open", <<"li">>, <<n, n + 1>>, attrs, <<>>, <<>>),
        Token(blockOpen, block, <<n, n + 1>>, <<>>, <<>>, <<>>),
        Token("inline", <<>>, <<n, n + 1>>, <<>>, RawContent(line), kids),
        Token(blockClose, block, <<>>, <<>>, <<>>, <<>>) >>

HeadingTokens(line, n) ==
  << Token("heading_open", <<"h", line.level>>, <<n, n + 1>>, <<>>, <<>>, <<>>),
     Token("inline", <<>>, <<n, n + 1>>, <<>>, line.text,
           <<InlineChild("text", line.text)>>),
     Token("heading_close", <<"h", line.level>>, <<>>, <<>>, <<>>, <<>>) >>

\* closes the open item and every list deeper than depth d; open is the
\* sequence of the bullets of the open lists, outermost first
RECURSIVE CloseTo(_, _)
CloseTo(open, d) ==
  IF Len(open) <= d THEN <<>>
  ELSE << Token("list_item_close", <<"li">>, <<>>, <<>>, <<>>, <<>>),
          Token(ListClose(open[Len(open)]), ListTag(open[Len(open)]),
                <<>>, <<>>, <<>>, <<>>) >>
       \o CloseTo(SubSeq(open, 1, Len(open) - 1), d)

ListOpenToken(bullet, n) ==
  Token(ListOpen(bullet), ListTag(bullet), <<n, n + 1>>, <<>>, <<>>, <<>>)

RECURSIVE TokenizeFrom(_, _, _)
TokenizeFrom(doc, n, open) ==
  IF n > Len(doc) THEN CloseTo(open, 0)
  ELSE
    LET line == doc[n]
        e == Len(open)
    IN IF line.kind = "h"
       THEN CloseTo(open, 0) \o HeadingTokens(line, n - 1)
            \o TokenizeFrom(doc, n + 1, <<>>)
       ELSE IF line.depth > e
       THEN <<ListOpenToken(line.bullet, n - 1)>> \o ItemTokens(line, n - 1)
            \o TokenizeFrom(doc, n + 1, Append(open, line.bullet))
       ELSE IF open[line.depth] = line.bullet
       THEN CloseTo(open, line.depth)
            \o <<Token("list_item_close", <<"li">>, <<>>, <<>>, <<>>, <<>>)>>
            \o ItemTokens(line, n - 1)
            \o TokenizeFrom(doc, n + 1, SubSeq(open, 1, line.depth))
       ELSE CloseTo(open, line.depth - 1)
            \o <<ListOpenToken(line.bullet, n - 1)>> \o ItemTokens(line, n - 1)
            \o TokenizeFrom(doc, n + 1,
                            Append(SubSeq(open, 1, line.depth - 1), line.bullet))

Tokenize(doc) == TokenizeFrom(doc, 1, <<>>)

\* ------------------------------------------------------------------------
\* parsePlan: the extraction walk over the token stream
\* ------------------------------------------------------------------------
IsSpace(lexeme) == lexeme = " "

RECURSIVE TrimStart(_)
TrimStart(text) ==
  IF text # <<>> /\ IsSpace(Head(text)) THEN TrimStart(Tail(text)) ELSE text

RECURSIVE TrimEnd(_)
TrimEnd(text) ==
  IF text # <<>> /\ IsSpace(text[Len(text)])
  THEN TrimEnd(SubSeq(text, 1, Len(text) - 1)) ELSE text

Trim(text) == TrimEnd(TrimStart(text))

\* fullText.match(/^\[-\]/) and fullText.replace(/^\[-\]\s*/, '')
StartsWith(text, marker) == text # <<>> /\ Head(text) = marker

KeepMarker(text) == text

StripMarker(text) == TrimStart(Tail(text))

NotHtml(c) == c.type # "html_inline"

IsCheckbox(c) ==
  c.type = "html_inline"
  /\ \E k \in 1..Len(c.content) : c.content[k] = "task-list-item-checkbox"

RECURSIVE JoinContents(_)
JoinContents(children) ==
  IF children = <<>> THEN <<>>
  ELSE Head(children).content \o JoinContents(Tail(children))

\* token.attrs?.some(([key, val]) => key === 'class' && val.includes('task-list-item'))
hasTaskClass(token) ==
  \E k \in 1..Len(token.attrs) :
     token.attrs[k][1] = "class" /\ "task-list-item" \in token.attrs[k][2]

\* state and text of a list item, from its inline content token
Detect(token, contentToken) ==
  IF hasTaskClass(token)
  THEN LET inputs == SelectSeq(contentToken.children, IsCheckbox)
           state ==
             IF inputs = <<>> THEN Undefined
             ELSE IF \E k \in 1..Len(inputs[1].content) :
                        inputs[1].content[k] = "checked=\"\""
             THEN Done ELSE Pending
       IN [state |-> state,
           text |-> Trim(JoinContents(SelectSeq(contentToken.children, NotHtml)))]
  ELSE LET fullText == contentToken.content
       IN IF StartsWith(fullText, "[-]")
          THEN [state |-> InProgress, text |-> Trim(StripMarker(fullText))]
          ELSE IF StartsWith(fullText, "[!]")
          THEN [state |-> Blocked, text |-> Trim(StripMarker(fullText))]
          ELSE [state |-> Undefined, text |-> <<>>]

IsHeadingEntry(fi) == fi.item.type = Heading

FirstHeadingLevel(flat) ==
  LET hs == SelectSeq(flat, IsHeadingEntry)
  IN IF hs = <<>> THEN 0 ELSE hs[1].level

\* the backwards search for the closest heading pushed so far
LastHeadingLevel(flat) ==
  LET hs == SelectSeq(flat, IsHeadingEntry)
  IN IF hs = <<>> THEN 0 ELSE hs[Len(hs)].level

\* parseInt(token.tag.substring(1))
HeadingLevelOf(token) == token.tag[2]

IsAnyHeading(headingLevel) == headingLevel >= 1

\* only H2 and deeper are extracted
IsExtractedHeading(headingLevel) == headingLevel >= 2

EmitsAnyText(found) == found.state # Undefined

\* if (state !== null && text)
Emits(found) == found.state # Undefined /\ found.text # <<>>

LineOf(token, lineCounter) == IF token.map # <<>> THEN token.map[1] ELSE lineCounter

WalkStart == [flatItems |-> <<>>, listDepth |-> 0, lineCounter |-> 0]

\* one iteration of the for loop of parsePlan, at tokens[i] (1-based here)
WalkIteration(st, tokens, i) ==
  LET token == tokens[i]
      afterHeading ==
        IF /\ token.type = "heading_open"
           /\ IsExtractedHeading(HeadingLevelOf(token))
           /\ i + 1 <= Len(tokens)
           /\ tokens[i + 1].type = "inline"
        THEN Append(st.flatItems,
               [item |-> HierarchyItem(Heading, tokens[i + 1].content, Undefined,
                                       LineOf(token, st.lineCounter),
                                       HeadingLevelOf(token)),
                level |-> HeadingLevelOf(token)])
        ELSE st.flatItems
      opened == IF token.type \in {"bullet_list_open", "ordered_list_open"}
                THEN st.listDepth + 1 ELSE st.listDepth
      listDepth == IF token.type \in {"bullet_list_close", "ordered_list_close"}
                   THEN opened - 1 ELSE opened
      found == Detect(token, tokens[i + 2])
      afterTask ==
        IF /\ token.type = "list_item_open"
           /\ i + 2 <= Len(tokens)
           /\ tokens[i + 2].type = "inline"
           /\ Emits(found)
        THEN LET taskLevel == LastHeadingLevel(afterHeading) + listDepth
             IN Append(afterHeading,
                  [item |-> HierarchyItem(Task, found.text, found.state,
                                          LineOf(token, st.lineCounter), taskLevel),
                   level |-> taskLevel])
        ELSE afterHeading
  IN [flatItems |-> afterTask, listDepth |-> listDepth,
      lineCounter |-> st.lineCounter + 1]

RECURSIVE WalkFrom(_, _, _)
WalkFrom(st, tokens, i) ==
  IF i > Len(tokens) THEN st
  ELSE WalkFrom(WalkIteration(st, tokens, i), tokens, i + 1)

\* the flat list of parsePlan after its loop
Extract(tokens) == WalkFrom(WalkStart, tokens, 1).flatItems

\* parsePlan from the flat list on
PlanOf(flat) ==
  LET hierarchical ==
        calculateAggregatedStatus(
          filterTaskBranches(markTaskDescendants(buildHierarchy(flat)).items))
  IN [filePath |-> FilePath, tasks |-> hierarchical,
      totalCount |-> totalTaskCount(flat),
      stateCount |-> countTasks(ZeroCounts, hierarchical)]

parsePlan(doc) == PlanOf(Extract(Tokenize(doc)))

\* ------------------------------------------------------------------------
\* State
\* ------------------------------------------------------------------------
VARIABLES
  doc,           \* content: the physical lines of the parsed file
  tokens,        \* md.parse(content, {})
  flatItems,     \* parsePlan: the flat (item, level) list
  pc,            \* parsePlan: the statement reached
  next,          \* buildHierarchy: count of flat items consumed by the forEach
  root,          \* buildHierarchy: the root array (and the nodes reachable from it)
  stack,         \* buildHierarchy: the frame stack
  hierarchical,  \* parsePlan: the variable hierarchical
  result         \* parsePlan: the returned ParsedPlan, NoResult until it returns

parseVars == <<doc, tokens, flatItems, pc, next, root, stack, hierarchical, result>>

VARIABLES
  files,         \* the file system: the mtime of each path
  cache,         \* PlanCache.cache: Map from path to CacheEntry
  calls,         \* the get / set calls suspended at their await, a bag
  returned       \* the PlanCache method that returned last and its value

cacheVars == <<files, cache, calls, returned>>

VARIABLES
  view,          \* PlanMonitorProvider._view, Undefined until the view is resolved
  isInitialized, \* PlanMonitorProvider._isInitialized
  planFiles,     \* PlanMonitorProvider._planFiles
  currentFile,   \* PlanMonitorProvider._currentFile
  frames,        \* the provider's async calls suspended at an await, a bag
  posted,        \* the webview: the last message it got and the last file list
  watch,         \* file changes the FileSystemWatcher has not reported yet
  started        \* count of the handlers started so far

providerVars ==
  <<view, isInitialized, planFiles, currentFile, frames, posted, watch, started>>

VARIABLES
  currentPlan,    \* main.js: let currentPlan, NoPlan for null
  availableFiles, \* main.js: let availableFiles
  currentConfig,  \* main.js: let currentConfig, its exclusions; NoConfig for null
  isSettingsOpen, \* main.js: let isSettingsOpen
  app,            \* main.js: the content of the element 'app', what is displayed
  sent            \* main.js: the last message handed to vscode.postMessage

webviewVars ==
  <<currentPlan, availableFiles, currentConfig, isSettingsOpen, app, sent>>

vars == <<parseVars, cacheVars, providerVars, webviewVars>>

\* ------------------------------------------------------------------------
\* Inputs
\* ------------------------------------------------------------------------
\* the lines of the documents: headings, standard checkboxes at every depth,
\* and at the top of a list the custom markers, a plain item, a marker
\* without text, an item of an ordered list and an item that holds a heading
Lines ==
  {HeadingLine(l, <<"H">>) : l \in 1..MaxHeading}
  \cup {ItemLine(d, "-", m, <<"A">>) : d \in 1..MaxDepth, m \in {"[ ]", "[x]"}}
  \cup {ItemLine(1, "-", m, <<"A">>) : m \in {"[-]", "[!]", ""}}
  \cup {ItemLine(1, "-", "[-]", <<>>), ItemLine(1, "1.", "[X]", <<"A">>)}
  \cup {ItemHeadingLine(1, "-", 2, "[-]", <<"A">>)}

\* a list item nests at most one level below the item of the line before
WellFormed(d) ==
  \A n \in 1..Len(d) :
     d[n].kind = "li" /\ d[n].depth > 1
       => n > 1 /\ d[n - 1].kind = "li" /\ d[n - 1].depth >= d[n].depth - 1

\* an (item, level) entry as the extractor pushes it: item.level = level
FlatEntry(type, state, line, level) ==
  [item |-> HierarchyItem(type, <<"A">>, state, line, level), level |-> level]

Kinds == {<<Heading, Undefined>>, <<Task, Pending>>, <<Task, Done>>}

\* the flat list of the given kinds and levels, one item per line
FlatList(k, lv) == [j \in 1..Len(k) |-> FlatEntry(k[j][1], k[j][2], j - 1, lv[j])]

Paths == {"a/PLAN.md", "b/PLAN.md"}

\* the ParsedPlan objects handed to PlanCache.set
Plans == {"plan1", "plan2"}

Null == "null"

\* ------------------------------------------------------------------------
\* Init
\* ------------------------------------------------------------------------
\* new PlanCache(outputChannel): an empty map, no call made
InitCache ==
  /\ files = [p \in Paths |-> 1]
  /\ cache = <<>>
  /\ calls = EmptyBag
  /\ returned = [op |-> "none", value |-> Null]

\* the message slots of a webview that has received nothing
NoPlan == [filePath |-> Undefined, totalCount |-> 0, stateCount |-> ZeroCounts]

Message(type, plan, current) == [type |-> type, plan |-> plan, current |-> current]

\* new PlanMonitorProvider(extensionUri, outputChannel); no view is resolved
InitProvider ==
  /\ view = Undefined
  /\ isInitialized = FALSE
  /\ planFiles = <<>>
  /\ currentFile = Undefined
  /\ frames = EmptyBag
  /\ posted = Message("none", NoPlan, Undefined)
  /\ watch = 0
  /\ started = 0

\* ------------------------------------------------------------------------
\* webview/main.js: what the element 'app' shows
\* ------------------------------------------------------------------------
\* the content of 'app': the screen drawn last, the plan of its header, the
\* files of its selector and the patterns of its exclusion list
Screen(kind, plan, selector, exclusions) ==
  [kind |-> kind, plan |-> plan, selector |-> selector, exclusions |-> exclusions]

renderEmptyState == Screen("empty-state", NoPlan, <<>>, <<>>)

renderError == Screen("error", NoPlan, <<>>, <<>>)

renderLoading == Screen("loading", NoPlan, <<>>, <<>>)

\* fills the container 'file-selector', which only renderPlan draws
renderFileSelector(shown, available) ==
  IF shown.kind # "plan" \/ available = <<>> THEN shown
  ELSE [shown EXCEPT !.selector = available]

renderPlan(plan, available) ==
  IF plan = NoPlan THEN renderEmptyState
  ELSE renderFileSelector(Screen("plan", plan, <<>>, <<>>), available)

\* the content renderSettings draws; it also sets isSettingsOpen
renderSettings(config) == Screen("settings-screen", NoPlan, <<>>, config.exclusions)

\* currentConfig = null, and a config message
NoConfig == [loaded |-> FALSE, exclusions |-> <<>>]

Config(exclusions) == [loaded |-> TRUE, exclusions |-> exclusions]

\* main.js as loaded: the state variables, then renderEmptyState()
InitWebview ==
  /\ currentPlan = NoPlan
  /\ availableFiles = <<>>
  /\ currentConfig = NoConfig
  /\ isSettingsOpen = FALSE
  /\ app = renderEmptyState
  /\ sent = "none"

\* what the caller of parsePlan holds before any call has returned
NoResult == [filePath |-> Undefined]

InitPipeline ==
  /\ next = 0
  /\ root = BuildStart.root
  /\ stack = BuildStart.stack
  /\ hierarchical = <<>>
  /\ result = NoResult

\* parsePlan(content, filePath) has been called and md.parse has returned
InitParse ==
  /\ \E n \in 0..MaxLines : \E d \in [1..n -> Lines] : WellFormed(d) /\ doc = d
  /\ tokens = Tokenize(doc)
  /\ flatItems = <<>>
  /\ pc = "walk"
  /\ InitPipeline
  /\ InitCache
  /\ InitProvider
  /\ InitWebview

\* buildHierarchy(flatItems) has been called on an arbitrary flat list
InitHier ==
  /\ doc = <<>>
  /\ tokens = <<>>
  /\ \E n \in 0..MaxItems :
        \E k \in [1..n -> Kinds], lv \in [1..n -> 1..MaxLevel] :
           flatItems = FlatList(k, lv)
  /\ pc = "build"
  /\ InitPipeline
  /\ InitCache
  /\ InitProvider
  /\ InitWebview

\* ------------------------------------------------------------------------
\* Actions of parsePlan
\* ------------------------------------------------------------------------
\* the for loop over the tokens
Walk ==
  /\ pc = "walk"
  /\ flatItems' = Extract(tokens)
  /\ pc' = "build"
  /\ UNCHANGED <<webviewVars, doc, tokens, next, root, stack, hierarchical, result, cacheVars, providerVars>>

\* one iteration of the forEach of buildHierarchy
BuildStep ==
  /\ pc = "build"
  /\ next < Len(flatItems)
  /\ LET st == BuildIteration([root |-> root, stack |-> stack], flatItems[next + 1])
     IN /\ root' = st.root
        /\ stack' = st.stack
  /\ next' = next + 1
  /\ UNCHANGED <<webviewVars, doc, tokens, flatItems, pc, hierarchical, result, cacheVars, providerVars>>

\* buildHierarchy returns root; markTaskDescendants(hierarchical) marks its nodes
Mark ==
  /\ pc = "build"
  /\ next = Len(flatItems)
  /\ root' = markTaskDescendants(root).items
  /\ hierarchical' = root'
  /\ pc' = "filter"
  /\ UNCHANGED <<webviewVars, doc, tokens, flatItems, next, stack, result, cacheVars, providerVars>>

\* hierarchical = filterTaskBranches(hierarchical): copies, root keeps the originals
Filter ==
  /\ pc = "filter"
  /\ hierarchical' = filterTaskBranches(hierarchical)
  /\ pc' = "aggregate"
  /\ UNCHANGED <<webviewVars, doc, tokens, flatItems, next, root, stack, result, cacheVars, providerVars>>

Aggregate ==
  /\ pc = "aggregate"
  /\ hierarchical' = calculateAggregatedStatus(hierarchical)
  /\ pc' = "count"
  /\ UNCHANGED <<webviewVars, doc, tokens, flatItems, next, root, stack, result, cacheVars, providerVars>>

\* countTasks, totalTaskCount and the returned object
Return ==
  /\ pc = "count"
  /\ result' = [filePath |-> FilePath, tasks |-> hierarchical,
                totalCount |-> totalTaskCount(flatItems),
                stateCount |-> countTasks(ZeroCounts, hierarchical)]
  /\ pc' = "done"
  /\ UNCHANGED <<webviewVars, doc, tokens, flatItems, next, root, stack, hierarchical, cacheVars, providerVars>>

\* ------------------------------------------------------------------------
\* PlanCache (planCache.ts) and the file system under it
\* ------------------------------------------------------------------------
\* what fs.stat(filePath) can settle with: the stats of the file as it is, or
\* a rejection (the file is missing or unreadable at that moment)
StatOutcomes(p) == {[ok |-> TRUE, mtimeMs |-> files[p]], [ok |-> FALSE, mtimeMs |-> 0]}

NoStats == [ok |-> FALSE, mtimeMs |-> 0]

Call(op, path, plan, at, stats) ==
  [op |-> op, path |-> path, plan |-> plan, at |-> at, stats |-> stats]

Has(call) == BagIn(call, calls)

Replace(old, new) == calls' = (calls (-) SetToBag({old})) (+) SetToBag({new})

Remove(old) == calls' = calls (-) SetToBag({old})

CacheEntry(mtime, parsed) == [mtime |-> mtime, parsed |-> parsed]

MapSetOnly(map, key, value) == (key :> value)

\* Map.set and Map.delete
MapSet(map, key, value) == (key :> value) @@ map

MapDelete(map, key) == [k \in DOMAIN map \ {key} |-> map[k]]

\* get(filePath) is called and suspends at await fs.stat
GetCall(p) ==
  /\ BagCardinality(calls) < MaxCalls
  /\ calls' = calls (+) SetToBag({Call("get", p, Null, "stat", NoStats)})
  /\ UNCHANGED <<webviewVars, files, cache, returned, parseVars, providerVars>>

\* fs.stat of a get settles
GetStat(call) ==
  /\ Has(call) /\ call.op = "get" /\ call.at = "stat"
  /\ \E stats \in StatOutcomes(call.path) :
        Replace(call, [call EXCEPT !.at = "resume", !.stats = stats])
  /\ UNCHANGED <<webviewVars, files, cache, returned, parseVars, providerVars>>

GetReturnAnyEntry(call) ==
  /\ Has(call) /\ call.op = "get" /\ call.at = "resume"
  /\ Remove(call)
  /\ returned' =
       [op |-> "get",
        value |-> IF call.stats.ok /\ call.path \in DOMAIN cache
                  THEN cache[call.path].parsed ELSE Null]
  /\ UNCHANGED <<webviewVars, files, cache, parseVars, providerVars>>

\* get resumes: the lookup and the mtime comparison, or the catch block
GetReturn(call) ==
  /\ Has(call) /\ call.op = "get" /\ call.at = "resume"
  /\ Remove(call)
  /\ returned' =
       [op |-> "get",
        value |-> IF /\ call.stats.ok
                     /\ call.path \in DOMAIN cache
                     /\ cache[call.path].mtime = call.stats.mtimeMs
                  THEN cache[call.path].parsed ELSE Null]
  /\ UNCHANGED <<webviewVars, files, cache, parseVars, providerVars>>

\* set(filePath, plan) is called and suspends at await fs.stat
SetCall(p, plan) ==
  /\ BagCardinality(calls) < MaxCalls
  /\ calls' = calls (+) SetToBag({Call("set", p, plan, "stat", NoStats)})
  /\ UNCHANGED <<webviewVars, files, cache, returned, parseVars, providerVars>>

\* fs.stat of a set settles
SetStat(call) ==
  /\ Has(call) /\ call.op = "set" /\ call.at = "stat"
  /\ \E stats \in StatOutcomes(call.path) :
        Replace(call, [call EXCEPT !.at = "resume", !.stats = stats])
  /\ UNCHANGED <<webviewVars, files, cache, returned, parseVars, providerVars>>

SetReturnKeepFirst(call) ==
  /\ Has(call) /\ call.op = "set" /\ call.at = "resume"
  /\ Remove(call)
  /\ cache' = IF call.stats.ok /\ call.path \notin DOMAIN cache
              THEN MapSet(cache, call.path, CacheEntry(call.stats.mtimeMs, call.plan))
              ELSE cache
  /\ returned' = [op |-> "set", value |-> Null]
  /\ UNCHANGED <<webviewVars, files, parseVars, providerVars>>

\* set resumes: this.cache.set(...), or the catch block that only logs
SetReturn(call) ==
  /\ Has(call) /\ call.op = "set" /\ call.at = "resume"
  /\ Remove(call)
  /\ cache' = IF call.stats.ok
              THEN MapSet(cache, call.path, CacheEntry(call.stats.mtimeMs, call.plan))
              ELSE cache
  /\ returned' = [op |-> "set", value |-> Null]
  /\ UNCHANGED <<webviewVars, files, parseVars, providerVars>>

InvalidateNothing(p) ==
  /\ returned' = [op |-> "invalidate",
                  value |-> IF p \in DOMAIN cache THEN "invalidated" ELSE Null]
  /\ UNCHANGED <<webviewVars, cache, files, calls, parseVars, providerVars>>

\* invalidate(filePath): this.cache.delete(filePath), logged when it deleted
Invalidate(p) ==
  /\ cache' = MapDelete(cache, p)
  /\ returned' = [op |-> "invalidate",
                  value |-> IF p \in DOMAIN cache THEN "invalidated" ELSE Null]
  /\ UNCHANGED <<webviewVars, files, calls, parseVars, providerVars>>

\* clear(): this.cache.clear()
Clear ==
  /\ cache' = <<>>
  /\ returned' = [op |-> "clear", value |-> Null]
  /\ UNCHANGED <<webviewVars, files, calls, parseVars, providerVars>>

\* the file is written outside the program: it gets a later mtime
ModifyFile(p) ==
  /\ files[p] < 1 + MaxWrites
  /\ files' = [files EXCEPT ![p] = @ + 1]
  /\ UNCHANGED <<webviewVars, cache, calls, returned, parseVars, providerVars>>

NextCache ==
  \/ \E p \in Paths : GetCall(p)
  \/ \E call \in BagToSet(calls) : GetStat(call)
  \/ \E call \in BagToSet(calls) : GetReturn(call)
  \/ \E p \in Paths, plan \in Plans : SetCall(p, plan)
  \/ \E call \in BagToSet(calls) : SetStat(call)
  \/ \E call \in BagToSet(calls) : SetReturn(call)
  \/ \E p \in Paths : Invalidate(p)
  \/ Clear
  \/ \E p \in Paths : ModifyFile(p)

\* the cache under every interleaving of its calls and of file changes
InitCacheOnly ==
  /\ doc = <<>>
  /\ tokens = <<>>
  /\ flatItems = <<>>
  /\ pc = "idle"
  /\ InitPipeline
  /\ InitCache
  /\ InitProvider
  /\ InitWebview

SpecCache == InitCacheOnly /\ [][NextCache]_vars

NextHier == BuildStep \/ Mark \/ Filter \/ Aggregate \/ Return

NextParse == Walk \/ NextHier

\* the pipeline from buildHierarchy on, over every flat list
SpecHier == InitHier /\ [][NextHier]_vars

\* parsePlan over every document
SpecParse == InitParse /\ [][NextParse]_vars

\* the documents parsed again after a first parse has returned
Reparsed ==
  { <<ItemLine(1, "-", "[ ]", <<"A">>)>>,
    <<HeadingLine(2, <<"H">>), ItemLine(1, "-", "[x]", <<"A">>)>> }

CallParsePlanKeepsRoot(d) ==
  /\ pc = "done"
  /\ doc' = d
  /\ tokens' = Tokenize(d)
  /\ flatItems' = <<>>
  /\ pc' = "walk"
  /\ next' = 0
  /\ hierarchical' = <<>>
  /\ UNCHANGED <<webviewVars, root, stack, result, cacheVars, providerVars>>

\* parsePlan(content, filePath) is called again: md.parse returns, flatItems,
\* root and stack are new arrays; the caller holds the plan returned before
CallParsePlan(d) ==
  /\ pc = "done"
  /\ doc' = d
  /\ tokens' = Tokenize(d)
  /\ flatItems' = <<>>
  /\ pc' = "walk"
  /\ next' = 0
  /\ root' = BuildStart.root
  /\ stack' = BuildStart.stack
  /\ hierarchical' = <<>>
  /\ UNCHANGED <<webviewVars, result, cacheVars, providerVars>>

NextReparse ==
  \/ NextParse
  \/ \E d \in Reparsed \cup {doc} : CallParsePlan(d)

\* the first call of parsePlan, on a document shorter than MaxLines
InitReparse ==
  /\ InitParse
  /\ Len(doc) < MaxLines

\* parsePlan called time after time, on the same and on other documents
SpecReparse == InitReparse /\ [][NextReparse]_vars

\* ------------------------------------------------------------------------
\* PlanMonitorProvider: the view, its loads and the file watcher
\* ------------------------------------------------------------------------
\* the two texts a PLAN file alternates between as it is written
TextOf(mtime) ==
  IF mtime % 2 = 1 THEN <<ItemLine(1, "-", "[ ]", <<"A">>)>>
  ELSE <<ItemLine(1, "-", "[x]", <<"A">>)>>

\* parsePlan(content, filePath), as far as the view's header shows it
LoadedPlan(p, content) ==
  LET plan == parsePlan(content)
  IN [filePath |-> p, totalCount |-> plan.totalCount, stateCount |-> plan.stateCount]

\* what fs.readFile(filePath, 'utf-8') can settle with
ReadFailed == [ok |-> FALSE, content |-> <<>>]

ReadOutcomes(p) == {[ok |-> TRUE, content |-> TextOf(files[p])], ReadFailed}

OkStats(p) == [ok |-> TRUE, mtimeMs |-> files[p]]

OkRead(p) == [ok |-> TRUE, content |-> TextOf(files[p])]

\* the PLAN files of the workspace, in the order findFiles lists them: both
\* have the same base name, so the sort by base name keeps that order
WorkspaceFiles == <<"a/PLAN.md", "b/PLAN.md">>

\* a deleted file has no mtime
Exists(p) == files[p] > 0

\* vscode.workspace.findFiles over the workspace, sorted by base name
FoundFiles == SelectSeq(WorkspaceFiles, Exists)

\* fs.stat and fs.readFile when nothing but a missing file makes them fail
StatOf(p) == IF Exists(p) THEN OkStats(p) ELSE NoStats

ReadOf(p) == IF Exists(p) THEN OkRead(p) ELSE ReadFailed

\* a call of _initialize, refreshView or _handleMessage suspended at an await;
\* lookup records what the lookup of get found when it missed
Frame(fn, file, at) ==
  [fn |-> fn, file |-> file, at |-> at, stats |-> NoStats, plan |-> NoPlan,
   lookup |-> "none"]

Suspended(frame) == BagIn(frame, frames)

Resume(old, new) == frames' = (frames (-) SetToBag({old})) (+) SetToBag({new})

Finish(old) == frames' = frames (-) SetToBag({old})

\* _postMessage: the message replaces the one shown, the last file list stays
Post(type, plan) ==
  IF view # Undefined THEN Message(type, plan, posted.current) ELSE posted

\* the updatePlan message of _loadPlan followed by _sendFileList
PostPlan(plan) ==
  IF view # Undefined THEN Message("updatePlan", plan, currentFile) ELSE posted

\* _initialize returns after its load: this._isInitialized = true
InitializedAfter(frame) == IF frame.fn = "_initialize" THEN TRUE ELSE isInitialized

\* total count of the writes made to the files so far
RECURSIVE WritesOver(_)
WritesOver(S) ==
  IF S = {} THEN 0
  ELSE LET p == CHOOSE x \in S : TRUE IN (files[p] - 1) + WritesOver(S \ {p})

\* PlanCache.get as _loadPlan sees it: the cached plan, or null and the reason
Lookup(map, p, stats) ==
  IF ~stats.ok THEN [hit |-> FALSE, plan |-> NoPlan, found |-> "failed"]
  ELSE IF p \notin DOMAIN map THEN [hit |-> FALSE, plan |-> NoPlan, found |-> "absent"]
  ELSE IF map[p].mtime = stats.mtimeMs
  THEN [hit |-> TRUE, plan |-> map[p].parsed, found |-> "fresh"]
  ELSE [hit |-> FALSE, plan |-> NoPlan, found |-> "stale"]

AfterReadSwallows(outcome) == "parsed"

\* a rejected readFile throws into the catch block of _loadPlan
AfterRead(outcome) == IF outcome.ok THEN "parsed" ELSE "error"

SetResultKeepFirst(map, p, stats, plan) ==
  IF stats.ok /\ p \notin DOMAIN map
  THEN MapSet(map, p, CacheEntry(stats.mtimeMs, plan)) ELSE map

\* PlanCache.set after its stat has settled: the store, or the catch that logs
SetResult(map, p, stats, plan) ==
  IF stats.ok THEN MapSet(map, p, CacheEntry(stats.mtimeMs, plan)) ELSE map

AfterSetRethrows(stats) == IF stats.ok THEN "updatePlan" ELSE "error"

\* set never throws: _loadPlan goes on to post the plan
AfterSet(stats) == "updatePlan"

\* resolveWebviewView: the view, a webview that has received nothing, is
\* stored and _initialize starts: it returns at once when _isInitialized is
\* set, else it posts 'loading' and suspends at _discoverPlanFiles
ResolveWebviewView ==
  /\ view = Undefined
  /\ started < MaxEvents
  /\ view' = "webview"
  /\ started' = started + 1
  /\ IF isInitialized
     THEN /\ posted' = Message("none", NoPlan, Undefined)
          /\ UNCHANGED frames
     ELSE /\ frames' = frames (+) SetToBag({Frame("_initialize", Undefined, "discover")})
          /\ posted' = Message("loading", NoPlan, Undefined)
  /\ UNCHANGED <<webviewVars, isInitialized, planFiles, currentFile, watch,
                 parseVars, cacheVars>>

\* the FileSystemWatcher reports a change: provider.refreshView() is called,
\* not awaited, and suspends at _discoverPlanFiles
WatcherFires ==
  /\ watch > 0
  /\ started < MaxEvents
  /\ watch' = watch - 1
  /\ started' = started + 1
  /\ frames' = frames (+) SetToBag({Frame("refreshView", Undefined, "discover")})
  /\ UNCHANGED <<webviewVars, view, isInitialized, planFiles, currentFile, posted,
                 parseVars, cacheVars>>

\* findPlanFiles settles; _initialize loads the first file, refreshView
\* invalidates and reloads the current file; _loadPlan sets _currentFile and
\* suspends at the stat of get
Discovered(frame) ==
  /\ Suspended(frame) /\ frame.at = "discover"
  /\ planFiles' = FoundFiles
  /\ LET stillExists == \E k \in 1..Len(FoundFiles) : FoundFiles[k] = currentFile
         first == IF Len(FoundFiles) > 0 THEN FoundFiles[1] ELSE Undefined
         target == IF frame.fn = "_initialize" \/ currentFile = Undefined THEN first
                   ELSE IF ~stillExists /\ Len(FoundFiles) > 0 THEN first
                   ELSE currentFile
     IN IF target # Undefined
        THEN /\ currentFile' = target
             /\ cache' = IF frame.fn = "refreshView" /\ currentFile # Undefined
                         THEN MapDelete(cache, target) ELSE cache
             /\ Resume(frame, Frame(frame.fn, target, "getStat"))
             /\ UNCHANGED <<posted, isInitialized>>
        ELSE /\ posted' = Post("empty", NoPlan)
             /\ Finish(frame)
             /\ isInitialized' = InitializedAfter(frame)
             /\ UNCHANGED <<currentFile, cache>>
  /\ UNCHANGED <<webviewVars, view, watch, started, parseVars, files, calls, returned>>

\* another file is picked in the selector, which the webview draws with a
\* plan: it sends selectFile and _handleMessage calls _loadPlan(Uri.file(p))
SelectFile(p) ==
  /\ view # Undefined
  /\ started < MaxEvents
  /\ posted.type = "updatePlan" /\ p # posted.plan.filePath
  /\ \E k \in 1..Len(planFiles) : planFiles[k] = p
  /\ started' = started + 1
  /\ currentFile' = p
  /\ frames' = frames (+) SetToBag({Frame("_handleMessage", p, "getStat")})
  /\ UNCHANGED <<webviewVars, view, isInitialized, planFiles, posted, watch,
                 parseVars, cacheVars>>

\* fs.stat of the get of a load settles
LoadGetStat(frame, stats) ==
  /\ Suspended(frame) /\ frame.at = "getStat"
  /\ Resume(frame, [frame EXCEPT !.at = "get", !.stats = stats])
  /\ UNCHANGED <<webviewVars, view, isInitialized, planFiles, currentFile, posted, watch,
                 started, parseVars, cacheVars>>

\* get resumes and returns: on a hit _loadPlan posts the cached plan and the
\* file list, on a miss it calls fs.readFile
LoadGet(frame) ==
  /\ Suspended(frame) /\ frame.at = "get"
  /\ LET found == Lookup(cache, frame.file, frame.stats)
     IN IF found.hit
        THEN /\ posted' = PostPlan(found.plan)
             /\ Finish(frame)
             /\ isInitialized' = InitializedAfter(frame)
        ELSE /\ Resume(frame, [frame EXCEPT !.at = "read", !.stats = NoStats,
                                            !.lookup = found.found])
             /\ UNCHANGED <<posted, isInitialized>>
  /\ UNCHANGED <<webviewVars, view, planFiles, currentFile, watch, started,
                 parseVars, cacheVars>>

\* fs.readFile settles: the content is parsed and set suspends at its stat,
\* or the catch block posts 'error'
LoadRead(frame, outcome) ==
  /\ Suspended(frame) /\ frame.at = "read"
  /\ IF AfterRead(outcome) = "parsed"
     THEN /\ Resume(frame, [frame EXCEPT !.at = "setStat",
                                         !.plan = LoadedPlan(frame.file, outcome.content)])
          /\ UNCHANGED <<posted, isInitialized>>
     ELSE /\ posted' = Post("error", NoPlan)
          /\ Finish(frame)
          /\ isInitialized' = InitializedAfter(frame)
  /\ UNCHANGED <<webviewVars, view, planFiles, currentFile, watch, started,
                 parseVars, cacheVars>>

\* fs.stat of the set of a load settles
LoadSetStat(frame, stats) ==
  /\ Suspended(frame) /\ frame.at = "setStat"
  /\ Resume(frame, [frame EXCEPT !.at = "set", !.stats = stats])
  /\ UNCHANGED <<webviewVars, view, isInitialized, planFiles, currentFile, posted, watch,
                 started, parseVars, cacheVars>>

\* set resumes and returns; _loadPlan posts the plan and the file list
LoadSet(frame) ==
  /\ Suspended(frame) /\ frame.at = "set"
  /\ cache' = SetResult(cache, frame.file, frame.stats, frame.plan)
  /\ posted' = IF AfterSet(frame.stats) = "updatePlan" THEN PostPlan(frame.plan)
               ELSE Post("error", NoPlan)
  /\ Finish(frame)
  /\ isInitialized' = InitializedAfter(frame)
  /\ UNCHANGED <<webviewVars, view, planFiles, currentFile, watch, started,
                 parseVars, files, calls, returned>>

\* a PLAN file is written outside the program: later mtime, the other text,
\* and a change for the watcher to report
WriteFile(p) ==
  /\ WritesOver(Paths) < MaxWrites
  /\ files' = [files EXCEPT ![p] = @ + 1]
  /\ watch' = watch + 1
  /\ UNCHANGED <<webviewVars, view, isInitialized, planFiles, currentFile, frames, posted,
                 started, parseVars, cache, calls, returned>>

\* the view is closed: onDidDispose calls _handleDispose
HandleDispose ==
  /\ view # Undefined
  /\ view' = Undefined
  /\ isInitialized' = FALSE
  /\ UNCHANGED <<webviewVars, planFiles, currentFile, frames, posted, watch, started,
                 parseVars, cacheVars>>

\* a PLAN file is deleted outside the program: a change for the watcher
DeleteFile(p) ==
  /\ Exists(p)
  /\ files' = [files EXCEPT ![p] = 0]
  /\ watch' = watch + 1
  /\ UNCHANGED <<webviewVars, view, isInitialized, planFiles, currentFile, frames, posted,
                 started, parseVars, cache, calls, returned>>

At(at) == {frame \in BagToSet(frames) : frame.at = at}

NextView ==
  \/ ResolveWebviewView
  \/ WatcherFires
  \/ \E frame \in At("discover") : Discovered(frame)
  \/ \E p \in Paths : SelectFile(p)
  \/ \E frame \in At("getStat") :
        \E stats \in StatOutcomes(frame.file) : LoadGetStat(frame, stats)
  \/ \E frame \in At("get") : LoadGet(frame)
  \/ \E frame \in At("read") :
        \E outcome \in ReadOutcomes(frame.file) : LoadRead(frame, outcome)
  \/ \E frame \in At("setStat") :
        \E stats \in StatOutcomes(frame.file) : LoadSetStat(frame, stats)
  \/ \E frame \in At("set") : LoadSet(frame)
  \/ \E p \in Paths : WriteFile(p)

\* the provider under every interleaving of its handlers, of the settling
\* of their file-system calls (failures included) and of file changes
SpecView == InitCacheOnly /\ [][NextView]_vars

NextSync ==
  \/ ResolveWebviewView
  \/ WatcherFires
  \/ \E frame \in At("discover") : Discovered(frame)
  \/ \E frame \in At("getStat") : LoadGetStat(frame, OkStats(frame.file))
  \/ \E frame \in At("get") : LoadGet(frame)
  \/ \E frame \in At("read") : LoadRead(frame, OkRead(frame.file))
  \/ \E frame \in At("setStat") : LoadSetStat(frame, OkStats(frame.file))
  \/ \E frame \in At("set") : LoadSet(frame)
  \/ currentFile # Undefined /\ WriteFile(currentFile)

\* the view and the watcher alone: every file-system call succeeds and the
\* file that changes is the current file
SpecSync == InitCacheOnly /\ [][NextSync]_vars

\* the steps of the loads when a file-system call fails only on a missing file
LoadSteps ==
  \/ \E frame \in At("discover") : Discovered(frame)
  \/ \E frame \in At("getStat") : LoadGetStat(frame, StatOf(frame.file))
  \/ \E frame \in At("get") : LoadGet(frame)
  \/ \E frame \in At("read") : LoadRead(frame, ReadOf(frame.file))
  \/ \E frame \in At("setStat") : LoadSetStat(frame, StatOf(frame.file))
  \/ \E frame \in At("set") : LoadSet(frame)

NextLife ==
  \/ ResolveWebviewView
  \/ HandleDispose
  \/ WatcherFires
  \/ \E p \in Paths : WriteFile(p)
  \/ LoadSteps

\* views that are resolved, closed and resolved again
SpecLife == InitCacheOnly /\ [][NextLife]_vars

NextGone ==
  \/ ResolveWebviewView
  \/ WatcherFires
  \/ \E p \in Paths : DeleteFile(p)
  \/ LoadSteps

\* a workspace whose PLAN files are deleted one after the other
SpecGone == InitCacheOnly /\ [][NextGone]_vars

\* ------------------------------------------------------------------------
\* webview/main.js: the message handler and the clicks
\* ------------------------------------------------------------------------
\* the plans the extension sends
ReceivedPlans == {LoadedPlan(p, TextOf(m)) : p \in Paths, m \in 1..2}

\* case 'updatePlan'
OnUpdatePlan(plan) ==
  /\ currentPlan' = plan
  /\ app' = IF ~isSettingsOpen THEN renderPlan(plan, availableFiles) ELSE app
  /\ UNCHANGED <<availableFiles, currentConfig, isSettingsOpen, sent,
                 parseVars, cacheVars, providerVars>>

\* case 'fileList'
OnFileList(list) ==
  /\ availableFiles' = list
  /\ app' = IF ~isSettingsOpen THEN renderFileSelector(app, list) ELSE app
  /\ UNCHANGED <<currentPlan, currentConfig, isSettingsOpen, sent,
                 parseVars, cacheVars, providerVars>>

\* case 'updateConfig'
OnUpdateConfig(config) ==
  /\ currentConfig' = config
  /\ isSettingsOpen' = TRUE
  /\ app' = renderSettings(config)
  /\ UNCHANGED <<currentPlan, availableFiles, sent,
                 parseVars, cacheVars, providerVars>>

\* case 'error'
OnError ==
  /\ app' = renderError
  /\ UNCHANGED <<currentPlan, availableFiles, currentConfig, isSettingsOpen, sent,
                 parseVars, cacheVars, providerVars>>

\* case 'loading'
OnLoading ==
  /\ app' = renderLoading
  /\ UNCHANGED <<currentPlan, availableFiles, currentConfig, isSettingsOpen, sent,
                 parseVars, cacheVars, providerVars>>

\* case 'empty'
OnEmpty ==
  /\ app' = renderEmptyState
  /\ UNCHANGED <<currentPlan, availableFiles, currentConfig, isSettingsOpen, sent,
                 parseVars, cacheVars, providerVars>>

\* the click on 'settings-btn', which the file selector draws
ClickSettings ==
  /\ app.kind = "plan" /\ app.selector # <<>>
  /\ sent' = "openSettings"
  /\ UNCHANGED <<currentPlan, availableFiles, currentConfig, isSettingsOpen, app,
                 parseVars, cacheVars, providerVars>>

\* closeSettings()
closeSettings ==
  /\ isSettingsOpen' = FALSE
  /\ app' = renderPlan(currentPlan, availableFiles)

\* the click on 'close-settings' or on 'cancel-settings'
ClickClose ==
  /\ app.kind = "settings-screen"
  /\ closeSettings
  /\ UNCHANGED <<currentPlan, availableFiles, currentConfig, sent,
                 parseVars, cacheVars, providerVars>>

\* the click on 'save-settings'; config is the object currentConfig holds,
\* and the filter keeps the patterns that are not blank
ClickSave ==
  /\ app.kind = "settings-screen"
  /\ currentConfig' =
        Config(SelectSeq(currentConfig.exclusions, LAMBDA e : e # ""))
  /\ sent' = "saveConfig"
  /\ closeSettings
  /\ UNCHANGED <<currentPlan, availableFiles, parseVars, cacheVars, providerVars>>

\* the click on 'add-exclusion'
ClickAdd ==
  /\ app.kind = "settings-screen"
  /\ Len(currentConfig.exclusions) < MaxExclusions
  /\ currentConfig' = Config(Append(currentConfig.exclusions, ""))
  /\ isSettingsOpen' = TRUE
  /\ app' = renderSettings(currentConfig')
  /\ UNCHANGED <<currentPlan, availableFiles, sent,
                 parseVars, cacheVars, providerVars>>

\* the click on the remove button of an exclusion: splice(index, 1), the
\* index counted from 1
ClickRemove(index) ==
  /\ app.kind = "settings-screen"
  /\ index \in 1..Len(app.exclusions)
  /\ currentConfig' =
        Config([k \in 1..Len(currentConfig.exclusions) - 1 |->
                  IF k < index THEN currentConfig.exclusions[k]
                  ELSE currentConfig.exclusions[k + 1]])
  /\ isSettingsOpen' = TRUE
  /\ app' = renderSettings(currentConfig')
  /\ UNCHANGED <<currentPlan, availableFiles, sent,
                 parseVars, cacheVars, providerVars>>

\* the input event of an exclusion's text field: the element keeps the text
TypePattern(index, pattern) ==
  /\ app.kind = "settings-screen"
  /\ index \in 1..Len(app.exclusions)
  /\ currentConfig' =
        Config([currentConfig.exclusions EXCEPT ![index] = pattern])
  /\ app' = [app EXCEPT !.exclusions[index] = pattern]
  /\ UNCHANGED <<currentPlan, availableFiles, isSettingsOpen, sent,
                 parseVars, cacheVars, providerVars>>

NextWebview ==
  \/ \E plan \in ReceivedPlans : OnUpdatePlan(plan)
  \/ \E list \in {<<WorkspaceFiles[1]>>, <<WorkspaceFiles[2]>>, WorkspaceFiles} :
       OnFileList(list)
  \/ \E config \in {Config(<<>>), Config(<<"**/dist/**">>)} : OnUpdateConfig(config)
  \/ OnError
  \/ OnLoading
  \/ OnEmpty
  \/ ClickSettings
  \/ ClickClose
  \/ ClickSave
  \/ ClickAdd
  \/ \E index \in 1..MaxExclusions : ClickRemove(index)
  \/ \E index \in 1..MaxExclusions, pattern \in {"", "**/dist/**"} :
       TypePattern(index, pattern)

\* the webview under every sequence of messages and clicks
SpecWebview == InitCacheOnly /\ [][NextWebview]_vars

\* ------------------------------------------------------------------------
\* Vocabulary of the properties
\* ------------------------------------------------------------------------
\* every node of a forest, at any depth
RECURSIVE NodesOf(_)
NodesOf(forest) ==
  UNION {{forest[j]} \cup NodesOf(forest[j].children) : j \in 1..Len(forest)}

\* the (child line, parent line) pairs of a forest; a root has parent line -1
RECURSIVE EdgesOf(_, _)
EdgesOf(forest, parentLine) ==
  UNION {{<<forest[j].line, parentLine>>} \cup EdgesOf(forest[j].children, forest[j].line)
         : j \in 1..Len(forest)}

\* the nearest entry before j whose level is strictly smaller, 0 if none
NearestSmaller(flat, j) ==
  LET smaller == {i \in 1..(j - 1) : flat[i].level < flat[j].level}
  IN IF smaller = {} THEN 0 ELSE CHOOSE i \in smaller : \A h \in smaller : h <= i

ExpectedParentLine(flat, j) ==
  IF NearestSmaller(flat, j) = 0 THEN -1 ELSE flat[NearestSmaller(flat, j)].item.line

ContainsTask(node) == \E n \in NodesOf(<<node>>) : n.type = Task

TasksBelow(node) == {n \in NodesOf(node.children) : n.type = Task}

Built == pc # "walk" /\ next = Len(flatItems)
Filtered == pc \in {"aggregate", "count", "done"}
Aggregated == pc \in {"count", "done"}

\* C1: after buildHierarchy has consumed a prefix of an (item, level) sequence
\* with levels >= 1, every consumed item is in the forest exactly once, its
\* parent is the nearest preceding item with a strictly smaller level, and an
\* item without such a predecessor is a root.
C1_NearestSmallerParent ==
  /\ EdgesOf(root, -1) = {<<flatItems[j].item.line, ExpectedParentLine(flatItems, j)>>
                            : j \in 1..next}
  /\ Cardinality(NodesOf(root)) = next

\* levels 1, 3, 2: the third item pops the second and hangs below the first
C1_Witness ==
  /\ Built /\ Len(flatItems) = 3
  /\ flatItems[1].level = 1 /\ flatItems[2].level = 3 /\ flatItems[3].level = 2
  /\ Len(root) = 1 /\ Len(root[1].children) = 2

\* C2: after the filter, a node of the built forest is in the filtered forest
\* iff its subtree, itself included, contains a Task; every surviving node has
\* hasTaskDescendants = true; a Heading without any Task below it is absent
\* together with its whole subtree.
C2_FilterKeepsTaskBranches ==
  Filtered =>
    /\ {n.line : n \in NodesOf(hierarchical)}
         = {n.line : n \in {m \in NodesOf(root) : ContainsTask(m)}}
    /\ \A n \in NodesOf(hierarchical) : n.hasTaskDescendants = "true"
    /\ \A n \in NodesOf(root) :
         n.type = Heading /\ TasksBelow(n) = {}
           => \A m \in NodesOf(<<n>>) :
                 m.line \notin {h.line : h \in NodesOf(hierarchical)}

\* a Heading whose only child is a Heading is dropped, a Task beside it survives
C2_Witness ==
  /\ Filtered
  /\ Len(root) = 2
  /\ root[1].type = Heading /\ Len(root[1].children) = 1
  /\ root[1].children[1].type = Heading
  /\ Len(hierarchical) = 1 /\ hierarchical[1].type = Task

ExpectedStatus(D) ==
  IF \A t \in D : t.state = Done THEN Done
  ELSE IF \E t \in D : t.state = Done THEN Partial
  ELSE Pending

RECURSIVE HeadingBefore(_, _)
HeadingBefore(d, n) ==
  IF n <= 1 THEN 0
  ELSE IF d[n - 1].level >= 2 THEN d[n - 1].level
  ELSE HeadingBefore(d, n - 1)

\* C4: every emitted Task has level = L + d, L the level of the nearest H2+
\* heading before it in the document (0 if none, also after an H1 only) and d
\* the list nesting depth of its list item.
C4_TaskLevel ==
  pc # "walk" =>
    \A j \in 1..Len(flatItems) :
       flatItems[j].item.type = Task =>
         LET n == flatItems[j].item.line + 1
         IN /\ doc[n].kind = "li"
            /\ flatItems[j].level = HeadingBefore(doc, n) + doc[n].depth
            /\ flatItems[j].item.level = flatItems[j].level

\* only an H1 precedes: the tasks at list depth 1 and 2 have the levels 1 and 2
C4_Witness ==
  /\ pc # "walk"
  /\ Len(doc) = 3 /\ doc[1].kind = "h" /\ doc[1].level = 1
  /\ Len(flatItems) = 2
  /\ flatItems[1].level = 1 /\ flatItems[2].level = 2

FlatTasks == {j \in 1..Len(flatItems) : flatItems[j].item.type = Task}

FlatTasksIn(state) == {j \in FlatTasks : flatItems[j].item.state = state}

\* the list items of the document that are checklist items with a text
TaskLines ==
  {n \in 1..Len(doc) :
     /\ doc[n].kind = "li" /\ doc[n].text # <<>>
     /\ \/ doc[n].marker \in {"[-]", "[!]"}
        \/ doc[n].level = 0 /\ doc[n].marker \in {"[ ]", "[x]", "[X]"}}

\* C8: totalCount is the number of Task items of the flat extraction: no
\* heading is counted, and every task, nested sub-tasks included, is counted
\* exactly once (one per checklist line, one per Task node of the forest).
C8_TotalCount ==
  pc = "done" =>
    /\ result.totalCount = Cardinality(FlatTasks)
    /\ result.totalCount = Cardinality(TaskLines)
    /\ result.totalCount = Cardinality({n \in NodesOf(result.tasks) : n.type = Task})

\* a heading, a task and its nested sub-task: two tasks are counted
C8_Witness ==
  /\ pc = "done"
  /\ Len(flatItems) = 3 /\ flatItems[1].item.type = Heading
  /\ Len(result.tasks) = 1 /\ Len(result.tasks[1].children) = 1
  /\ Len(result.tasks[1].children[1].children) = 1
  /\ result.totalCount = 2

\* C9: each bucket of stateCount is the number of extracted Task items in that
\* state, and the four buckets sum to totalCount.
C9_StateCount ==
  pc = "done" =>
    /\ result.stateCount.pending = Cardinality(FlatTasksIn(Pending))
    /\ result.stateCount.done = Cardinality(FlatTasksIn(Done))
    /\ result.stateCount.inProgress = Cardinality(FlatTasksIn(InProgress))
    /\ result.stateCount.blocked = Cardinality(FlatTasksIn(Blocked))
    /\ result.stateCount.pending + result.stateCount.done
         + result.stateCount.inProgress + result.stateCount.blocked
       = result.totalCount

\* "## Section", "- [ ] A", "- [x] B": totalCount 2, one pending, one done
C9_Witness ==
  /\ pc = "done"
  /\ Len(doc) = 3 /\ doc[1].kind = "h" /\ doc[1].level = 2
  /\ doc[2].marker = "[ ]" /\ doc[3].marker = "[x]" /\ doc[3].depth = 1
  /\ result.totalCount = 2
  /\ result.stateCount = [pending |-> 1, done |-> 1, inProgress |-> 0, blocked |-> 0]

\* C10: in the final forest a node has an aggregatedStatus iff it has a child;
\* the extractor sets none, and none is set before the aggregation.
C10_AggregatedIffChildren ==
  /\ \A j \in 1..Len(flatItems) : flatItems[j].item.aggregatedStatus = Undefined
  /\ ~Aggregated =>
       \A n \in NodesOf(root) \cup NodesOf(hierarchical) : n.aggregatedStatus = Undefined
  /\ Aggregated =>
       \A n \in NodesOf(hierarchical) :
          (n.aggregatedStatus # Undefined) <=> (Len(n.children) > 0)
  /\ pc = "done" =>
       \A n \in NodesOf(result.tasks) :
          (n.aggregatedStatus \in AggregatedStatus) <=> (Len(n.children) > 0)

\* a heading with a status over a leaf task without one
C10_Witness ==
  /\ pc = "done"
  /\ Len(result.tasks) = 1
  /\ result.tasks[1].aggregatedStatus = Done
  /\ Len(result.tasks[1].children) = 1
  /\ result.tasks[1].children[1].children = <<>>
  /\ result.tasks[1].children[1].aggregatedStatus = Undefined

\* the entries of every path but p are the same before and after the step
OthersKept(p) ==
  \A q \in Paths \ {p} :
     /\ (q \in DOMAIN cache') <=> (q \in DOMAIN cache)
     /\ q \in DOMAIN cache => cache'[q] = cache[q]

\* a successful fs.stat carries the mtime the file has at that moment
StatSeesFile(call) ==
  \E after \in BagToSet(calls') :
     /\ after.op = call.op /\ after.path = call.path /\ after.at = "resume"
     /\ after.stats.ok => after.stats.mtimeMs = files[call.path]

\* C5: get(P) returns a plan iff stat(P) succeeded and P has an entry whose
\* stored mtime equals the mtime stat saw, and then it is that entry's plan;
\* otherwise, a stat failure included, it returns null.
C5_GetHitIffFresh ==
  [][\A call \in BagToSet(calls) :
       /\ GetStat(call) => StatSeesFile(call)
       /\ GetReturn(call) =>
            /\ returned'.op = "get"
            /\ returned'.value \in Plans \cup {Null}
            /\ returned'.value # Null
                 <=> /\ call.stats.ok
                     /\ call.path \in DOMAIN cache
                     /\ cache[call.path].mtime = call.stats.mtimeMs
            /\ returned'.value # Null => returned'.value = cache[call.path].parsed
            /\ UNCHANGED cache]_vars

\* a hit after a write: the stored mtime is the file's, the stored plan came back
C5_Witness ==
  /\ returned.op = "get" /\ returned.value = "plan2"
  /\ \E p \in DOMAIN cache : cache[p] = CacheEntry(files[p], "plan2") /\ files[p] = 2
  /\ \A p \in DOMAIN cache : cache[p].parsed = "plan2"

\* C6: set(P, plan) records {mtime stat saw, plan} for P over any earlier
\* entry of P and touches no other entry; when stat fails the cache is left as
\* it was, and the call returns normally.
C6_SetStoresOrSkips ==
  [][\A call \in BagToSet(calls) :
       /\ SetStat(call) => StatSeesFile(call)
       /\ SetReturn(call) =>
            /\ returned'.op = "set" /\ returned'.value = Null
            /\ OthersKept(call.path)
            /\ call.stats.ok =>
                 /\ call.path \in DOMAIN cache'
                 /\ cache'[call.path].mtime = call.stats.mtimeMs
                 /\ cache'[call.path].parsed = call.plan
            /\ ~call.stats.ok => cache' = cache]_vars

\* one entry holds the second mtime and the plan of the last store, beside
\* the untouched entry of the other path
C6_Witness ==
  /\ returned.op = "set"
  /\ \E p \in DOMAIN cache :
        /\ cache[p] = CacheEntry(2, "plan2")
        /\ \E q \in DOMAIN cache : q # p /\ cache[q] = CacheEntry(1, "plan1")

\* C7: invalidate(P) removes the entry of P and nothing else, clear() removes
\* every entry; an absent entry stays absent until a set of that path
\* succeeds, and while it is absent get(P) returns null, whatever the mtime.
C7_InvalidateAndClear ==
  [][/\ \A p \in Paths :
          /\ Invalidate(p) => p \notin DOMAIN cache' /\ OthersKept(p)
          /\ (p \notin DOMAIN cache /\ p \in DOMAIN cache')
               => \E call \in BagToSet(calls) :
                     SetReturn(call) /\ call.path = p /\ call.stats.ok
     /\ Clear => DOMAIN cache' = {}
     /\ \A call \in BagToSet(calls) :
          GetReturn(call) /\ call.path \notin DOMAIN cache
            => returned'.value = Null]_vars

\* invalidate has just removed one entry and kept the entry of the other path
C7_Witness ==
  /\ returned.op = "invalidate" /\ returned.value = "invalidated"
  /\ Cardinality(DOMAIN cache) = 1

\* ------------------------------------------------------------------------
\* Extraction: headings, markers, skipped items, ids, document order
\* ------------------------------------------------------------------------
\* the nodes of a forest in pre-order
RECURSIVE PreorderOf(_)
PreorderOf(forest) ==
  IF forest = <<>> THEN <<>>
  ELSE <<Head(forest)>> \o PreorderOf(Head(forest).children)
       \o PreorderOf(Tail(forest))

PreorderLines(forest) ==
  LET nodes == PreorderOf(forest) IN [j \in 1..Len(nodes) |-> nodes[j].line]

FlatLines(k) == [j \in 1..k |-> flatItems[j].item.line]

HeadingsOf(forest) == {n \in NodesOf(forest) : n.type = Heading}

\* the lines (0-based) that carry a heading of level 2 or deeper
SectionLines == {n - 1 : n \in {m \in 1..Len(doc) : doc[m].level >= 2}}

\* C11: no Heading of level 1 is emitted: every Heading of the flat list and
\* of the forests has a level in 2..6, the Headings of the flat list are those
\* of the heading lines of level 2 and deeper, and a document whose headings
\* are all of level 1 yields no Heading.
C11_NoLevelOneHeading ==
  /\ \A j \in 1..Len(flatItems) :
        flatItems[j].item.type = Heading
          => flatItems[j].level \in 2..6 /\ flatItems[j].item.level = flatItems[j].level
  /\ \A n \in HeadingsOf(root) \cup HeadingsOf(hierarchical) : n.level \in 2..6
  /\ pc # "walk" =>
       {flatItems[j].item.line : j \in {i \in 1..Len(flatItems) :
                                          flatItems[i].item.type = Heading}}
         = SectionLines
  /\ pc = "done" =>
       /\ \A n \in HeadingsOf(result.tasks) : n.level \in 2..6
       /\ SectionLines = {} => HeadingsOf(result.tasks) = {}

\* "# Title", "- [ ] A": the H1 is dropped and the plan is the task alone
C11_Witness ==
  /\ pc = "done"
  /\ Len(doc) = 2 /\ doc[1].kind = "h" /\ doc[1].level = 1
  /\ Len(flatItems) = 1 /\ flatItems[1].item.type = Task
  /\ Len(result.tasks) = 1 /\ HeadingsOf(result.tasks) = {}

\* the state a marker stands for
StateOfMarker(marker) ==
  CASE marker \in {"[x]", "[X]"} -> Done
    [] marker = "[ ]" -> Pending
    [] marker = "[-]" -> InProgress
    [] marker = "[!]" -> Blocked
    [] OTHER -> Undefined

SkippedLines ==
  {n \in 1..Len(doc) : doc[n].kind = "li" /\ (doc[n].marker = "" \/ doc[n].text = <<>>)}

WellTyped(n) ==
  /\ n.type = Task => n.text # <<>> /\ n.state \in TaskState
  /\ n.type = Heading => n.state = Undefined

\* C13: a list item without a marker, or with a marker and no text after it,
\* emits nothing, and the items after it are still extracted; every Task has
\* a non-empty text and a state, and no Heading has a state.
C13_SkippedItems ==
  /\ pc # "walk" =>
       /\ \A n \in SkippedLines :
             \A j \in 1..Len(flatItems) : flatItems[j].item.line # n - 1
       /\ \A n \in TaskLines :
             \E j \in FlatTasks : flatItems[j].item.line = n - 1
  /\ \A j \in 1..Len(flatItems) : WellTyped(flatItems[j].item)
  /\ \A n \in NodesOf(root) \cup NodesOf(hierarchical) : WellTyped(n)
  /\ pc = "done" => \A n \in NodesOf(result.tasks) : WellTyped(n)

\* "- plain", "- [-]", "- [ ] A": only the third item is extracted
C13_Witness ==
  /\ pc = "done"
  /\ Len(doc) = 3
  /\ doc[1].marker = "" /\ doc[2].marker = "[-]" /\ doc[2].text = <<>>
  /\ doc[3].marker = "[ ]"
  /\ Len(flatItems) = 1 /\ flatItems[1].item.line = 2
  /\ result.totalCount = 1

\* C14: within one plan no two nodes have the same id: at most one item,
\* Heading or Task, is emitted per source line.
C14_UniqueIds ==
  /\ pc # "walk" =>
       \A i, j \in 1..Len(flatItems) :
          i # j => flatItems[i].item.id # flatItems[j].item.id
  /\ pc = "done" =>
       LET nodes == PreorderOf(result.tasks)
       IN \A i, j \in 1..Len(nodes) : i # j => nodes[i].id # nodes[j].id

Survives(line) == line \in {n.line : n \in NodesOf(hierarchical)}

\* C15: the pre-order of the forest built so far is the consumed prefix of the
\* flat sequence, and the pre-order of the filtered forest is the flat sequence
\* restricted to the surviving nodes, in the same order.
C15_DocumentOrder ==
  /\ PreorderLines(root) = FlatLines(next)
  /\ Filtered =>
       PreorderLines(hierarchical) = SelectSeq(FlatLines(Len(flatItems)), Survives)
  /\ pc = "done" => PreorderLines(result.tasks) = PreorderLines(hierarchical)

\* heading, empty sub-heading, task: the sub-heading is dropped from between
C15_Witness ==
  /\ pc = "done"
  /\ Len(flatItems) = 3
  /\ Len(root) = 1 /\ Len(root[1].children) = 2
  /\ PreorderLines(root) = <<0, 1, 2>>
  /\ PreorderLines(result.tasks) = <<0, 2>>

\* ------------------------------------------------------------------------
\* Loads: stale entries, independent paths, failures, the view in sync
\* ------------------------------------------------------------------------
\* the step with which a load whose readFile was rejected ends
ReadFails(frame) == LoadRead(frame, ReadFailed)

Loads == {frame \in BagToSet(frames) : frame.at # "discover"}

\* C16, as stated: once the lookup of a load has found P's entry stale, the
\* load ends with P's entry absent or carrying the file's current mtime.
C16_StaleNeverRemains ==
  [][\A frame \in Loads :
       frame.lookup = "stale" /\ (LoadSet(frame) \/ ReadFails(frame))
         => \/ frame.file \notin DOMAIN cache'
            \/ cache'[frame.file].mtime = files'[frame.file]]_vars

\* C16, amended: a stale entry is not served; the load that found it replaces
\* it by the entry (mtime seen by the stat of its set, plan it parsed) when
\* its readFile and that stat succeed, and leaves the cache as it was, the
\* stale entry included, when readFile or that stat fails.
C16_StaleReplacedByStore ==
  [][\A frame \in Loads :
       /\ ( /\ LoadGet(frame) /\ frame.stats.ok /\ frame.file \in DOMAIN cache
            /\ cache[frame.file].mtime # frame.stats.mtimeMs )
            => /\ cache' = cache /\ posted' = posted
               /\ BagIn([frame EXCEPT !.at = "read", !.stats = NoStats,
                                      !.lookup = "stale"], frames')
       /\ frame.lookup = "stale" /\ LoadSet(frame) /\ frame.stats.ok
            => /\ frame.file \in DOMAIN cache'
               /\ cache'[frame.file] = CacheEntry(frame.stats.mtimeMs, frame.plan)
       /\ frame.lookup = "stale" /\ LoadSet(frame) /\ ~frame.stats.ok
            => cache' = cache
       /\ frame.lookup = "stale" /\ ReadFails(frame) => cache' = cache]_vars

\* a load that found the entry of its file stale is about to store the plan
\* it parsed, under the mtime its stat saw, over the stale entry
C16_Witness ==
  \E frame \in Loads :
     /\ frame.lookup = "stale" /\ frame.at = "set" /\ frame.stats.ok
     /\ frame.file \in DOMAIN cache
     /\ cache[frame.file].mtime # frame.stats.mtimeMs

C18_StoreFailureStillPosts ==
  [][\A frame \in Loads :
       LoadSet(frame) /\ ~frame.stats.ok
         => /\ cache' = cache
            /\ view # Undefined
                 => posted'.type = "updatePlan" /\ posted'.plan = frame.plan
            /\ started = 1
                 => ~Lookup(cache', frame.file, OkStats(frame.file)).hit]_vars

\* the only load so far has posted its plan and nothing is cached
C18_Witness ==
  /\ view # Undefined /\ started = 1 /\ frames = EmptyBag
  /\ posted.type = "updatePlan" /\ posted.plan.filePath = currentFile
  /\ cache = <<>>

\* C19, as stated: when a stat or readFile fails during a load, the load
\* posts 'error' instead of updatePlan and no entry is created.
C19_FailureMeansError ==
  [][\A frame \in Loads :
       view # Undefined =>
         /\ ReadFails(frame) => posted'.type = "error" /\ cache' = cache
         /\ LoadSet(frame) /\ (~frame.stats.ok \/ frame.lookup = "failed")
              => posted'.type = "error" /\ cache' = cache]_vars

\* C19, amended: a rejected readFile ends the load with an 'error' message
\* and no cache change; a rejected stat inside get makes get return null and
\* the load goes on to readFile; a rejected stat inside set stores nothing
\* and the load does not post 'error'; every such step returns normally.
C19_ReadFailureMeansError ==
  [][\A frame \in Loads :
       /\ ReadFails(frame)
            => /\ cache' = cache
               /\ frames' = frames (-) SetToBag({frame})
               /\ view # Undefined => posted'.type = "error"
       /\ LoadGet(frame) /\ ~frame.stats.ok
            => /\ cache' = cache /\ posted' = posted
               /\ BagIn([frame EXCEPT !.at = "read", !.lookup = "failed"], frames')
       /\ LoadSet(frame) /\ ~frame.stats.ok
            => /\ cache' = cache
               /\ frames' = frames (-) SetToBag({frame})
               /\ view # Undefined => posted'.type # "error"]_vars

\* the first load has failed at readFile: the view shows the error
C19_Witness ==
  /\ view # Undefined /\ started = 1 /\ frames = EmptyBag
  /\ currentFile # Undefined
  /\ posted.type = "error"
  /\ cache = <<>>

\* C20: once the current file has changed (only the current file is written
\* in SpecSync), the watcher has reported every change and no load is in
\* flight, the last message of the view is the updatePlan of the parse of
\* the file's current content.
C20_ViewInSync ==
  /\ view # Undefined /\ frames = EmptyBag /\ watch = 0
  /\ currentFile # Undefined /\ files[currentFile] > 1
  => /\ posted.type = "updatePlan"
     /\ posted.plan = LoadedPlan(currentFile, TextOf(files[currentFile]))

\* ------------------------------------------------------------------------
\* The pipeline as a whole: totality, determinism, the stack, the shape of
\* the final forest
\* ------------------------------------------------------------------------
Stages == {"walk", "build", "filter", "aggregate", "count", "done"}

\* the count of the steps parsePlan has left at most
ParseRank ==
  CASE pc = "walk" -> Len(tokens) + 5
    [] pc = "build" -> (Len(flatItems) - next) + 4
    [] pc = "filter" -> 3
    [] pc = "aggregate" -> 2
    [] pc = "count" -> 1
    [] OTHER -> 0

RECURSIVE IsForest(_)
IsForest(forest) ==
  \A j \in 1..Len(forest) :
     /\ forest[j].type \in ItemType
     /\ forest[j].id = <<FilePath, forest[j].line>>
     /\ forest[j].line \in Nat /\ forest[j].level \in Nat
     /\ forest[j].state \in TaskState \cup {Undefined}
     /\ forest[j].aggregatedStatus \in AggregatedStatus \cup {Undefined}
     /\ IsForest(forest[j].children)

IsParsedPlan(plan) ==
  /\ plan.filePath = FilePath
  /\ IsForest(plan.tasks)
  /\ plan.totalCount \in Nat
  /\ \A f \in {"pending", "done", "inProgress", "blocked"} : plan.stateCount[f] \in Nat

\* C21: parsePlan is total: on every document (empty, without headings,
\* without checklist items, with levels that jump by more than one) the walk
\* yields a flat list no longer than the token stream, each later stage that
\* has not returned can take its next step (the aggregation is defined on the
\* filtered forest), every step brings the return closer, the forEach never
\* runs past the flat list, and the value returned
\* is a ParsedPlan; a document without checklist items returns the empty
\* forest, totalCount 0 and a histogram of zeros.
C21_Total ==
  /\ [](/\ pc \in Stages
        /\ next <= Len(flatItems)
        /\ Len(stack) >= 1
        /\ pc = "walk" => Len(Extract(tokens)) <= Len(tokens)
        /\ pc \in {"build", "filter", "count"} => ENABLED NextHier
        /\ pc = "aggregate" => IsForest(calculateAggregatedStatus(hierarchical))
        /\ pc # "done" => result = NoResult
        /\ pc = "done" =>
             /\ IsParsedPlan(result)
             /\ TaskLines = {} =>
                  /\ result.tasks = <<>>
                  /\ result.totalCount = 0
                  /\ \A f \in {"pending", "done", "inProgress", "blocked"} :
                        result.stateCount[f] = 0)
  /\ [][ParseRank' < ParseRank]_vars

\* "### H", "- plain", "## H": the levels jump from 0 to 3, there is no
\* checklist item, and parsePlan has returned the empty plan
C21_Witness ==
  /\ pc = "done"
  /\ Len(doc) = 3
  /\ doc[1].kind = "h" /\ doc[1].level = 3
  /\ doc[2].kind = "li" /\ doc[2].marker = ""
  /\ doc[3].kind = "h" /\ doc[3].level = 2
  /\ Len(flatItems) = 2 /\ Len(root) = 2
  /\ result.tasks = <<>> /\ result.totalCount = 0

C23_CacheCoherent ==
  \A p \in DOMAIN cache :
     cache[p].parsed = LoadedPlan(p, TextOf(cache[p].mtime))

\* the frames of the stack whose level is below the incoming level
FramesBelow(level) == {i \in 1..Len(stack) : stack[i].level < level}

\* C24: the sentinel frame (level 0, owning the root list) stays at the bottom
\* of the stack, so the stack is never empty when an item is appended; the
\* levels of the frames increase strictly from bottom to top, the top frame
\* is that of the item consumed last, and an iteration keeps exactly the
\* frames whose level is below the incoming level, however many it pops.
C24_SentinelAndStack ==
  /\ [](/\ Len(stack) >= 1
        /\ stack[1] = [level |-> 0, children |-> <<>>]
        /\ \A i, j \in 1..Len(stack) : i < j => stack[i].level < stack[j].level
        /\ next > 0 =>
             /\ stack[Len(stack)].level = flatItems[next].level
             /\ Len(stack[Len(stack)].children) = Len(stack) - 1
             /\ ChildrenAt(root, stack[Len(stack)].children) = <<>>)
  /\ [][BuildStep =>
          LET level == flatItems[next + 1].level
              kept == Cardinality(FramesBelow(level))
          IN /\ kept >= 1
             /\ Len(stack') = kept + 1
             /\ SubSeq(stack', 1, kept) = SubSeq(stack, 1, kept)
             /\ stack'[kept + 1].level = level
             /\ Len(ChildrenAt(root', stack[kept].children))
                  = Len(ChildrenAt(root, stack[kept].children)) + 1]_vars

\* levels 2, 3, 1: the third item has popped two frames at once and sits on
\* the sentinel
C24_Witness ==
  /\ pc = "build" /\ next = 3
  /\ flatItems[1].level = 2 /\ flatItems[2].level = 3 /\ flatItems[3].level = 1
  /\ Len(stack) = 2 /\ stack[2].level = 1
  /\ Len(root) = 2 /\ Len(root[1].children) = 1

\* C25: in the final forest a Heading is a root or a child of a Heading:
\* no Task has a Heading among its children.
C25_HeadingsUnderHeadings ==
  pc = "done" =>
    \A n \in NodesOf(result.tasks) :
       n.type = Task =>
         \A k \in 1..Len(n.children) : n.children[k].type = Task

\* C26: in the filtered forest, and so in the plan returned, every leaf is a
\* Task, every Heading has a child and, once aggregated, a status, and below
\* every node with children there is a Task: the aggregator never collects
\* an empty list.
C26_LeavesAreTasks ==
  /\ Filtered =>
       \A n \in NodesOf(hierarchical) :
          /\ n.children = <<>> => n.type = Task
          /\ n.type = Heading => Len(n.children) >= 1
          /\ Len(n.children) > 0 =>
               /\ TasksBelow(n) # {}
               /\ collectDescendantTasks(n) # <<>>
  /\ pc = "done" =>
       /\ result.tasks = hierarchical
       /\ \A n \in HeadingsOf(result.tasks) : n.aggregatedStatus \in AggregatedStatus

\* "## H", "- [x] A", "### H": the trailing sub-heading is a leaf of the built
\* forest and is gone from the plan, whose only leaf is the task
C26_Witness ==
  /\ pc = "done"
  /\ Len(root) = 1 /\ root[1].type = Heading /\ Len(root[1].children) = 2
  /\ root[1].children[2].type = Heading /\ root[1].children[2].children = <<>>
  /\ Len(result.tasks) = 1 /\ Len(result.tasks[1].children) = 1
  /\ result.tasks[1].children[1].type = Task
  /\ result.tasks[1].aggregatedStatus = Done

\* C27: once no load is in flight, the last updatePlan the view got is the
\* plan of _currentFile, the file the last fileList marks as current.
C27_LastPlanIsCurrent ==
  view # Undefined /\ frames = EmptyBag /\ posted.type = "updatePlan"
    => /\ posted.current = currentFile
       /\ posted.plan.filePath = currentFile

\* the messages that serve a view: a plan, the empty state or an error
Served == {"updatePlan", "empty", "error"}

\* C28: _isInitialized is set only while a view is attached, and a view that
\* is attached with no handler in flight and no change left to report has
\* received an updatePlan, 'empty' or 'error' message.
C28_EveryViewServed ==
  /\ isInitialized => view # Undefined
  /\ view # Undefined /\ frames = EmptyBag /\ watch = 0 => posted.type \in Served

Listed(p, found) == \E k \in 1..Len(found) : found[k] = p

\* C29: when the discovery of a refreshView finds no PLAN file, the refresh
\* ends there with the 'empty' message, whether or not a current file is
\* set; when it finds files and the current file is not among them, the
\* first file found becomes the current file and its load is started.
C29_RefreshWithoutFiles ==
  [][\A frame \in At("discover") :
       Discovered(frame) /\ frame.fn = "refreshView" /\ view # Undefined
         => /\ FoundFiles = <<>>
                 => /\ posted'.type = "empty"
                    /\ frames' = frames (-) SetToBag({frame})
            /\ ( /\ FoundFiles # <<>> /\ currentFile # Undefined
                 /\ ~Listed(currentFile, FoundFiles) )
                 => /\ currentFile' = FoundFiles[1]
                    /\ BagIn(Frame("refreshView", FoundFiles[1], "getStat"),
                             frames')]_vars

\* C30: isSettingsOpen is true exactly while the settings screen is what is
\* displayed; a plan received while the settings screen is not displayed is
\* rendered on receipt; a plan received while it is displayed is kept and is
\* rendered when the settings close.
C30_SettingsFlagTracksScreen ==
  /\ [](isSettingsOpen <=> app.kind = "settings-screen")
  /\ [][\A plan \in ReceivedPlans : OnUpdatePlan(plan) =>
          /\ currentPlan' = plan
          /\ app.kind # "settings-screen" => app' = renderPlan(plan, availableFiles)
          /\ app.kind = "settings-screen" => app' = app]_vars
  /\ [][(ClickClose \/ ClickSave) /\ currentPlan # NoPlan =>
          app' = renderPlan(currentPlan, availableFiles)]_vars

====
